---- MODULE Spec2Model ----
(***************************************************************************)
(* State machine of the App component (src/App.tsx) together with the      *)
(* Gemini service wrapper (src/unnamed/part_000) and the API key modal     *)
(* (src/unnamed/part_001): the creation history, its persisted copy in     *)
(* localStorage, the active creation and the requests in flight.           *)
(***************************************************************************)
EXTENDS Integers, Sequences, FiniteSets, TLC

VARIABLES
    history,            \* useState<Creation[]>            App.tsx:19
    activeCreation,     \* useState<Creation | null>       App.tsx:17
    isGenerating,       \* useState(false)                 App.tsx:18
    isApiKeyModalOpen,  \* useState(false)                 App.tsx:20
    apiStatus,          \* 'idle'|'checking'|'valid'|'invalid'  App.tsx:21
    storedHistory,      \* localStorage['gemini_app_history']
    storedKey,          \* localStorage['user_gemini_api_key']
    initPc,             \* position of initHistory: "fetching" | "done"
    inflight,           \* generate / revise calls that have not settled yet
    probes,             \* validateApiKey calls that have not settled yet
    validated,          \* the keys for which a validateApiKey call has
                        \* returned true so far (kept for the properties)
    modalTimer,         \* the setTimeout of checkApiConnection is pending
    steps,              \* number of state-changing handler calls made so far
    uuids,              \* number of crypto.randomUUID() results handed out
    clock,              \* number of Date readings taken so far
    exportedFile,       \* the file written by the last handleExport
    lastAlert,          \* the alert() shown by the step that led here
    writeFailures,      \* number of localStorage.setItem calls that threw
    lastOp,             \* the handler step that produced this state
    call                \* a call of a function of the Gemini service looked
                        \* at on its own: its arguments and what it gives

vars == <<history, activeCreation, isGenerating, isApiKeyModalOpen, apiStatus,
          storedHistory, storedKey, initPc, inflight, probes, validated,
          modalTimer, steps, uuids, clock, exportedFile, lastAlert,
          writeFailures, lastOp, call>>

----------------------------------------------------------------------------
(* Program constant *)

MAX_HISTORY_ITEMS == 30

(* Bounds of the model *)

MaxTextLen == 4         \* tokens in a response text given to the cleanup

MaxSteps == 2           \* state-changing handler calls a user makes in one behaviour
MaxWriteFailures == 1   \* throwing localStorage.setItem calls per behaviour
MaxPick == 1            \* history cards reachable by select / delete: the
                        \* first MaxPick cards and the last one

----------------------------------------------------------------------------
(* Values *)

Null == [null |-> TRUE]             \* null (activeCreation, no file, ...)
Absent == [absent |-> TRUE]         \* localStorage.getItem(key) === null
Stored(text) == [text |-> text]     \* localStorage holds text under the key
NoKey == ""                         \* no API key stored: !key holds
Undefined == <<>>                   \* an optional field left undefined

\* No function of the service is looked at on its own
NoCall == [fn |-> "none"]

\* A Date: a valid instant, or the Invalid Date that new Date("garbage") gives.
ValidDate(t) == [valid |-> TRUE, time |-> t]
InvalidDate == [valid |-> FALSE, time |-> 0]

\* Text is a sequence of tokens.  Tokens of a model response:
\*   Fence a code fence of three backquotes, "html" the tag that may follow
\*   it, "ws" one white space character, "x" any other content.
Fence == "fence"
FailureComment == <<"<!-- failed -->">>     \* fallback text of bringToLife
DefaultName == <<"new creation">>           \* name of a creation made without a file
V2Suffix == " (v2)"

\* A generator that hands out the same identifier twice
RandomUUIDRepeats(n) == <<"uuid", 1>>

\* crypto.randomUUID(): the n-th identifier handed out
RandomUUID(n) == <<"uuid", n>>

\* Prefix of a sequence: Array.prototype.slice(0, n)
Slice(s, n) == IF Len(s) <= n THEN s ELSE SubSeq(s, 1, n)

----------------------------------------------------------------------------
(* JSON documents.  A document is a function from the keys it holds; a     *)
(* timestamp in a document is ISO text of an instant, some other text, or  *)
(* null.                                                                   *)

IsoText(t) == [kind |-> "iso", time |-> t]
OtherText == [kind |-> "text", time |-> 0]
JsonNull == [kind |-> "null", time |-> 0]

\* Date.prototype.toJSON as JSON.stringify applies it: the ISO text of a
\* valid instant, null for an Invalid Date.
DateToJSON(d) == IF d.valid THEN IsoText(d.time) ELSE JsonNull

\* new Date(v) for a JSON value v: null is the epoch, text that is no date
\* gives an Invalid Date.
NewDate(v) ==
    CASE v.kind = "iso" -> ValidDate(v.time)
      [] v.kind = "null" -> ValidDate(0)
      [] OTHER -> InvalidDate

\* JSON.stringify(creation): an undefined originalImage is left out.
Stringify(c) ==
    LET base == [id |-> c.id, name |-> c.name, html |-> c.html,
                 timestamp |-> DateToJSON(c.timestamp)]
    IN IF c.originalImage = Undefined
          THEN base
          ELSE base @@ [originalImage |-> c.originalImage]

\* JSON.stringify(history)
StringifyHistory(h) == [i \in DOMAIN h |-> Stringify(h[i])]

\* JSON.parse of a stored text written by StringifyHistory
ParseHistory(stored) == stored.text

\* doc.key || fallback for the text-like keys (id, name, html, originalImage)
Field(doc, key) == IF key \in DOMAIN doc THEN doc[key] ELSE Undefined

\* !!doc.key for the text-like keys
Truthy(doc, key) == key \in DOMAIN doc /\ doc[key] # <<>>

\* new Date(doc.timestamp || now)
TimestampOrNow(doc, now) ==
    IF "timestamp" \in DOMAIN doc /\ doc["timestamp"].kind # "null"
       THEN NewDate(doc["timestamp"])
       ELSE ValidDate(now)

\* initHistory, lines 50-54: { ...item, timestamp: new Date(item.timestamp) }
LoadItem(item) ==
    [id |-> Field(item, "id"), name |-> Field(item, "name"),
     html |-> Field(item, "html"),
     originalImage |-> Field(item, "originalImage"),
     timestamp |-> IF "timestamp" \in DOMAIN item
                      THEN NewDate(item["timestamp"]) ELSE InvalidDate]

LoadHistory(saved) == [i \in DOMAIN saved |-> LoadItem(saved[i])]

----------------------------------------------------------------------------
(* The environment: what localStorage holds when the page is opened, the   *)
(* bundled example documents, the files a user may import.                 *)

\* A history of n creations as an earlier session saved it.
SavedHistory(n) ==
    [i \in 1..n |->
        [id |-> <<"saved", i>>, name |-> <<"P">>, html |-> <<"x">>,
         timestamp |-> IsoText(0)]]

\* gemini_app_history when the page is opened: never written or removed, or
\* a saved history of MAX_HISTORY_ITEMS creations.
InitialStores == {Absent, Stored(SavedHistory(MAX_HISTORY_ITEMS))}

\* user_gemini_api_key when the page is opened
InitialKeys == {NoKey, "key1"}

\* The three example URLs, lines 65-69, and the names lines 78-80 give them.
ExampleUrls == {1, 2, 3}
ExampleName(u) ==
    CASE u = 1 -> <<"Vibe blog">> [] u = 2 -> <<"cassette">> [] OTHER -> <<"chess">>

\* The sets of URLs whose fetch may answer ok: none, two of them, all
FetchOutcomes == {{}, {2, 3}, ExampleUrls}

\* The document behind an example URL; the second one has no id and no
\* timestamp.
ExampleData(u) ==
    IF u = 2
       THEN [name |-> <<"example">>, html |-> <<"x">>]
       ELSE [id |-> <<"example", u>>, name |-> <<"example">>, html |-> <<"x">>,
             timestamp |-> IsoText(0)]

\* Files offered to the import input
NotJson == [notjson |-> TRUE]               \* JSON.parse throws
DocNoHtml == [id |-> <<"ext", 1>>, name |-> <<"N">>]
DocEmptyName == [id |-> <<"ext", 1>>, name |-> <<>>, html |-> <<"x">>]
DocBare == [name |-> <<"N">>, html |-> <<"x">>]
DocBadTime == [id |-> <<"ext", 1>>, name |-> <<"N">>, html |-> <<"x">>,
               timestamp |-> OtherText]
ImportFiles == {NotJson, DocNoHtml, DocEmptyName, DocBare, DocBadTime}

----------------------------------------------------------------------------
(* The save-history effect, lines 102-114.  It runs after every render in  *)
(* which history is a new array; ok is whether localStorage.setItem        *)
(* returns (TRUE) or throws (FALSE).                                       *)

\* An effect that never writes
SaveNever(h, stored, ok) == stored

\* An effect whose failed write wipes the stored entry
SaveWipesOnFailure(h, stored, ok) ==
    IF Len(h) > 0
       THEN IF ok THEN Stored(StringifyHistory(h)) ELSE Absent
       ELSE stored

SaveHistoryEffect(h, stored, ok) ==
    IF Len(h) > 0
       THEN IF ok THEN Stored(StringifyHistory(h)) ELSE stored
       ELSE stored

\* The outcomes of localStorage.setItem: it returns (TRUE) or throws (FALSE)
WriteOutcomes == IF writeFailures < MaxWriteFailures THEN {TRUE, FALSE} ELSE {TRUE}

Failed(h, ok) == IF Len(h) > 0 /\ ~ok THEN 1 ELSE 0

----------------------------------------------------------------------------
(* Initial state: the first render and the synchronous part of the mount   *)
(* effects (lines 24-35 and 44-62).                                        *)

\* A call of validateApiKey(key) that has not settled; n tells apart the
\* calls made for the same key
Probe(n, key) == [pid |-> n, key |-> key]

Mounted ==
    /\ storedHistory \in InitialStores
    /\ storedKey \in InitialKeys
    /\ LET loadedHistory == IF storedHistory = Absent
                                THEN <<>>
                                ELSE LoadHistory(ParseHistory(storedHistory))
       IN /\ history = loadedHistory
          /\ initPc = IF Len(loadedHistory) > 0 THEN "done" ELSE "fetching"
    /\ activeCreation = Null
    /\ isGenerating = FALSE
    /\ isApiKeyModalOpen = FALSE
    /\ apiStatus = IF storedKey = NoKey THEN "idle" ELSE "checking"
    /\ probes = IF storedKey = NoKey THEN {} ELSE {Probe(0, storedKey)}
    /\ validated = {}
    /\ modalTimer = (storedKey = NoKey)
    /\ inflight = {}
    /\ steps = 0
    /\ uuids = 0
    /\ clock = 0
    /\ exportedFile = Null
    /\ lastAlert = "none"
    /\ writeFailures = 0
    /\ lastOp = "mount"

Init == Mounted /\ call = NoCall

----------------------------------------------------------------------------
(* History operations *)

\* An insert that forgets the limit
AddWithoutLimit(record, prev) == <<record>> \o prev

\* An insert that makes room at the head instead of the tail
AddEvictingHead(record, prev) ==
    IF Len(prev) < MAX_HISTORY_ITEMS
       THEN <<record>> \o prev ELSE <<record>> \o Tail(prev)

\* An insert that overwrites the record added last
AddOverLatest(record, prev) ==
    IF prev = <<>> THEN <<record>> ELSE <<record>> \o Tail(prev)

\* An insert at the tail
AddAtTail(record, prev) == Slice(prev \o <<record>>, MAX_HISTORY_ITEMS)

\* [record, ...prev].slice(0, MAX_HISTORY_ITEMS), lines 174, 201 and 262
AddToHistory(record, prev) == Slice(<<record>> \o prev, MAX_HISTORY_ITEMS)

\* A filter with its test inverted
RemoveAllOthers(prev, id) == SelectSeq(prev, LAMBDA item : item.id = id)

\* prev.filter(item => item.id !== id), line 227
RemoveFromHistory(prev, id) == SelectSeq(prev, LAMBDA item : item.id # id)

\* A presence test that never finds the id
ExistsNever(prev, id) == FALSE

\* prev.some(c => c.id === id), line 260
Exists(prev, id) == \E i \in DOMAIN prev : prev[i].id = id

\* The history cards a user picks from: the first MaxPick and the last one
Picks(h) == {i \in DOMAIN h : i <= MaxPick \/ i = Len(h)}

----------------------------------------------------------------------------
(* initHistory after the example fetches settle, lines 71-94 *)

\* lines 82-87: the creation made of the document fetched from url u
ExampleCreation(data, u, uuid, now) ==
    [id |-> IF Truthy(data, "id") THEN data["id"] ELSE uuid,
     name |-> ExampleName(u),
     html |-> Field(data, "html"),
     originalImage |-> Field(data, "originalImage"),
     timestamp |-> TimestampOrNow(data, now)]

\* lines 71-90: okUrls are the URLs whose fetch answered ok; the others give
\* null and are filtered out
ValidExamples(okUrls) ==
    LET urls == SelectSeq(<<1, 2, 3>>, LAMBDA u : u \in okUrls)
    IN [k \in DOMAIN urls |->
           ExampleCreation(
               ExampleData(urls[k]), urls[k],
               RandomUUID(uuids + Cardinality(
                   {j \in 1..k : ~Truthy(ExampleData(urls[j]), "id")})),
               clock + 1)]

\* Promise.all resolved: line 91 replaces history by the examples
initHistoryLoaded(okUrls, ok) ==
    /\ initPc = "fetching"
    /\ initPc' = "done"
    /\ history' = ValidExamples(okUrls)
    /\ storedHistory' = SaveHistoryEffect(history', storedHistory, ok)
    /\ writeFailures' = writeFailures + Failed(history', ok)
    /\ uuids' = uuids + Cardinality({u \in okUrls : ~Truthy(ExampleData(u), "id")})
    /\ clock' = clock + Cardinality({u \in okUrls :
                                        "timestamp" \notin DOMAIN ExampleData(u)})
    /\ lastOp' = "initLoaded"
    /\ lastAlert' = "none"
    /\ UNCHANGED <<activeCreation, isGenerating, isApiKeyModalOpen,
                   apiStatus, storedKey, probes,
                   modalTimer, inflight, steps, exportedFile, call, validated>>

\* a fetch or res.json() threw: lines 92-94 log the error and set nothing
initHistoryFailed ==
    /\ initPc = "fetching"
    /\ initPc' = "done"
    /\ lastOp' = "initFailed"
    /\ lastAlert' = "none"
    /\ UNCHANGED <<history, activeCreation, isGenerating, isApiKeyModalOpen,
                   apiStatus, storedHistory, storedKey, probes,
                   modalTimer, inflight, steps,
                   uuids, clock, exportedFile, call, validated, writeFailures>>

----------------------------------------------------------------------------
(* Handlers that do not wait: lines 211-278 and 577-589 *)

\* A reset that also drops the calls in flight
handleResetCancels ==
    /\ steps < MaxSteps
    /\ steps' = steps + 1
    /\ activeCreation' = Null
    /\ isGenerating' = FALSE
    /\ inflight' = {}
    /\ lastOp' = "reset"
    /\ lastAlert' = "none"
    /\ UNCHANGED <<history, isApiKeyModalOpen, apiStatus, storedHistory,
                   storedKey, probes,
                   modalTimer, initPc, uuids, clock, exportedFile, call, validated,
                   writeFailures>>

\* A reset that leaves the progress display on
handleResetKeepsProgress ==
    /\ steps < MaxSteps
    /\ steps' = steps + 1
    /\ activeCreation' = Null
    /\ lastOp' = "reset"
    /\ lastAlert' = "none"
    /\ UNCHANGED <<history, isGenerating, isApiKeyModalOpen, apiStatus,
                   storedHistory, storedKey, probes,
                   modalTimer, initPc, inflight, uuids, clock, exportedFile, call, validated,
                   writeFailures>>

\* lines 211-214
handleReset ==
    /\ steps < MaxSteps
    /\ steps' = steps + 1
    /\ activeCreation' = Null
    /\ isGenerating' = FALSE
    /\ lastOp' = "reset"
    /\ lastAlert' = "none"
    /\ UNCHANGED <<history, isApiKeyModalOpen, apiStatus, storedHistory,
                   storedKey, probes,
                   modalTimer, initPc, inflight, uuids, clock, exportedFile, call, validated,
                   writeFailures>>

handleSelectCreation(creation) ==
    /\ steps < MaxSteps
    /\ steps' = steps + 1
    /\ activeCreation' = creation
    /\ lastOp' = "select"
    /\ lastAlert' = "none"
    /\ UNCHANGED <<history, isGenerating, isApiKeyModalOpen, apiStatus,
                   storedHistory, storedKey, probes,
                   modalTimer, initPc, inflight, uuids, clock,
                   exportedFile, call, validated, writeFailures>>

\* A delete that leaves the stored entry in place when the history empties
StoreAfterDeleteKept(newHistory, stored, ok) ==
    SaveHistoryEffect(newHistory, stored, ok)

\* lines 228-231, then the save effect: the stored entry after a delete
StoreAfterDelete(newHistory, stored, ok) ==
    IF Len(newHistory) = 0
       THEN Absent     \* localStorage.removeItem, line 230
       ELSE SaveHistoryEffect(newHistory, stored, ok)

\* A delete that never closes the preview
ActiveAfterDeleteKept(active, id) == active

\* lines 221-224: activeCreation?.id === id closes the preview
ActiveAfterDelete(active, id) ==
    IF active # Null /\ active.id = id THEN Null ELSE active

handleDeleteCreation(id, ok) ==
    /\ steps < MaxSteps
    /\ steps' = steps + 1
    /\ activeCreation' = ActiveAfterDelete(activeCreation, id)
    /\ LET newHistory == RemoveFromHistory(history, id)
       IN /\ history' = newHistory
          /\ storedHistory' = StoreAfterDelete(newHistory, storedHistory, ok)
          /\ writeFailures' = writeFailures + Failed(newHistory, ok)
    /\ lastOp' = IF Exists(history, id) THEN "delete" ELSE "deleteAbsent"
    /\ lastAlert' = "none"
    /\ UNCHANGED <<isGenerating, isApiKeyModalOpen, apiStatus, storedKey, probes,
                   modalTimer,
                   initPc, inflight, uuids, clock, exportedFile, call, validated>>

\* lines 252-256: the creation made of a parsed document
ImportedCreation(parsed, uuid, now) ==
    [id |-> IF Truthy(parsed, "id") THEN parsed["id"] ELSE uuid,
     name |-> Field(parsed, "name"),
     html |-> Field(parsed, "html"),
     originalImage |-> Field(parsed, "originalImage"),
     timestamp |-> TimestampOrNow(parsed, now)]

\* JSON.parse(json) throws
ParseThrows(file) == file = NotJson

\* A validation that forgets the name
ValidFormatHtmlOnly(parsed) == Truthy(parsed, "html")

\* line 251
ValidFormat(parsed) == Truthy(parsed, "html") /\ Truthy(parsed, "name")

\* reader.onload of handleImportFile, lines 245-276
handleImportFile(file, ok) ==
    /\ steps < MaxSteps
    /\ steps' = steps + 1
    /\ IF ParseThrows(file)
          THEN /\ lastAlert' = "import failed"
               /\ lastOp' = "importFailed"
               /\ UNCHANGED <<history, activeCreation, storedHistory, uuids,
                              clock, writeFailures>>
          ELSE IF ~ValidFormat(file)
          THEN /\ lastAlert' = "invalid file format"
               /\ lastOp' = "importRejected"
               /\ UNCHANGED <<history, activeCreation, storedHistory, uuids,
                              clock, writeFailures>>
          ELSE LET importedCreation ==
                       ImportedCreation(file, RandomUUID(uuids + 1), clock + 1)
                   exists == Exists(history, importedCreation.id)
               IN /\ history' = IF exists THEN history
                                 ELSE AddToHistory(importedCreation, history)
                  /\ storedHistory' =
                        IF exists THEN storedHistory
                        ELSE SaveHistoryEffect(history', storedHistory, ok)
                  /\ writeFailures' =
                        IF exists THEN writeFailures
                        ELSE writeFailures + Failed(history', ok)
                  /\ activeCreation' = importedCreation
                  /\ uuids' = IF Truthy(file, "id") THEN uuids ELSE uuids + 1
                  /\ clock' = IF "timestamp" \in DOMAIN file
                                  /\ file["timestamp"].kind # "null"
                               THEN clock ELSE clock + 1
                  /\ lastOp' = IF exists THEN "importExisting" ELSE "import"
                  /\ lastAlert' = "none"
    /\ UNCHANGED <<isGenerating, isApiKeyModalOpen, apiStatus, storedKey, probes,
                   modalTimer,
                   initPc, inflight, exportedFile, call, validated>>

\* handleExport of LivePreview, lines 577-589: creation is activeCreation
\* It writes a download and no program state, and is not counted in steps.
handleExport ==
    /\ activeCreation # Null
    /\ exportedFile' = Stringify(activeCreation)
    /\ lastOp' = "export"
    /\ lastAlert' = "none"
    /\ UNCHANGED <<history, activeCreation, isGenerating, isApiKeyModalOpen,
                   apiStatus, storedHistory, storedKey, probes,
                   modalTimer, initPc, inflight,
                   steps, uuids, clock, writeFailures, call, validated>>

----------------------------------------------------------------------------
(* The API key: checkApiConnection (App.tsx 24-35), the settings buttons,  *)
(* and the handlers of ApiKeyModal (src/unnamed/part_001), which renders   *)
(* nothing while isOpen is false (line 44).                                *)

\* What a user types in the key field: white space only, or a key, other
\* than the one stored when the page was opened, with white space before it
KeyInputs == {<<"ws">>, <<"ws", "key2">>}

\* String.prototype.trim on the tokens of a text
RECURSIVE Trim(_)
Trim(text) ==
    IF text = <<>> THEN text
    ELSE IF Head(text) = "ws" THEN Trim(Tail(text))
    ELSE IF text[Len(text)] = "ws" THEN Trim(SubSeq(text, 1, Len(text) - 1))
    ELSE text

\* the timer of line 29 fires
modalTimerFires ==
    /\ modalTimer
    /\ modalTimer' = FALSE
    /\ isApiKeyModalOpen' = TRUE
    /\ lastOp' = "timer"
    /\ lastAlert' = "none"
    /\ UNCHANGED <<history, activeCreation, isGenerating, apiStatus,
                   storedHistory, storedKey, initPc, inflight, probes, steps,
                   uuids, clock, exportedFile, call, validated, writeFailures>>

\* validateApiKey settles for the key it was called with (part_000 61-74),
\* then line 34: the status is set whatever key is stored by now
validateApiKeyResolves(p, isValid) ==
    /\ p \in probes
    /\ probes' = probes \ {p}
    /\ apiStatus' = IF isValid THEN "valid" ELSE "invalid"
    /\ validated' = IF isValid THEN validated \cup {p.key} ELSE validated
    /\ lastOp' = "probe"
    /\ lastAlert' = "none"
    /\ UNCHANGED <<history, activeCreation, isGenerating, isApiKeyModalOpen,
                   storedHistory, storedKey, initPc, inflight, modalTimer,
                   steps, uuids, clock, exportedFile, call, writeFailures>>

\* the settings buttons, lines 323, 379 and 396; opening and closing the
\* modal are not counted in steps
openSettings ==
    /\ isApiKeyModalOpen' = TRUE
    /\ lastOp' = "openSettings"
    /\ lastAlert' = "none"
    /\ UNCHANGED <<history, activeCreation, isGenerating, apiStatus,
                   storedHistory, storedKey, initPc, inflight, probes,
                   modalTimer, steps, uuids, clock, exportedFile, call, validated,
                   writeFailures>>

\* onClose of the modal, line 421
onClose ==
    /\ isApiKeyModalOpen
    /\ isApiKeyModalOpen' = FALSE
    /\ lastOp' = "closeModal"
    /\ lastAlert' = "none"
    /\ UNCHANGED <<history, activeCreation, isGenerating, apiStatus,
                   storedHistory, storedKey, initPc, inflight, probes,
                   modalTimer, steps, uuids, clock, exportedFile, call, validated,
                   writeFailures>>

\* handleSave of the modal (part_001 31-36), then handleApiKeySaved and
\* checkApiConnection (App.tsx 280-283, 24-35), which finds the key just
\* stored
handleSave(apiKey) ==
    /\ isApiKeyModalOpen
    /\ steps < MaxSteps
    /\ steps' = steps + 1
    /\ IF Trim(apiKey) # <<>>
          THEN /\ storedKey' = Trim(apiKey)[1]
               /\ isApiKeyModalOpen' = FALSE
               /\ apiStatus' = "checking"
               /\ probes' = probes \cup {Probe(steps + 1, Trim(apiKey)[1])}
               /\ lastOp' = "saveKey"
          ELSE /\ lastOp' = "saveKeyEmpty"
               /\ UNCHANGED <<storedKey, isApiKeyModalOpen, apiStatus, probes>>
    /\ lastAlert' = "none"
    /\ UNCHANGED <<history, activeCreation, isGenerating, storedHistory,
                   initPc, inflight, modalTimer, uuids, clock, exportedFile, call, validated,
                   writeFailures>>

\* handleClear of the modal, part_001 38-42
handleClear ==
    /\ isApiKeyModalOpen
    /\ steps < MaxSteps
    /\ steps' = steps + 1
    /\ storedKey' = NoKey
    /\ lastOp' = "clearKey"
    /\ lastAlert' = "none"
    /\ UNCHANGED <<history, activeCreation, isGenerating, isApiKeyModalOpen,
                   apiStatus, storedHistory, initPc, inflight, probes,
                   modalTimer, uuids, clock, exportedFile, call, validated, writeFailures>>

----------------------------------------------------------------------------
(* The Gemini service, src/unnamed/part_000 *)

\* Files offered to handleGenerate: name, declared media type, base64 data
NoFile == Null
FilePng == [name |-> <<"sketch.png">>, type |-> "image/png", data |-> "b64"]
Files == {NoFile, FilePng}

Prompts == {"", "make a game"}

\* What response.text may be: a lone fence, a fenced document
ResponseTexts == {<<Fence>>, <<Fence, "html", "ws", "y", Fence>>}

\* Errors of the remote call, by the text error.toString() gives
API_KEY_MISSING == <<"API_KEY_MISSING">>
RemoteErrors == {<<"got", "403">>, <<"got", "400">>, <<"got", "503">>}

\* String.prototype.includes on the tokens of a text
Includes(text, token) == \E i \in DOMAIN text : text[i] = token

\* A client that is made whatever is stored
KeyNeverMissing == FALSE

\* getGenAIClient, lines 53-59: throws when no key is stored
KeyMissing == storedKey = NoKey

\* a (possibly empty) run of white space at the start is dropped: \s*
RECURSIVE DropSpace(_)
DropSpace(text) ==
    IF text # <<>> /\ Head(text) = "ws" THEN DropSpace(Tail(text)) ELSE text

\* lines 111 and 141:
\*   .replace(/^fence html\s*/, '').replace(/^fence\s*/, '').replace(/fence$/, '')
StripFences(text) ==
    LET a == IF Len(text) >= 2 /\ text[1] = Fence /\ text[2] = "html"
                THEN DropSpace(SubSeq(text, 3, Len(text))) ELSE text
        b == IF Len(a) >= 1 /\ a[1] = Fence THEN DropSpace(Tail(a)) ELSE a
    IN IF Len(b) >= 1 /\ b[Len(b)] = Fence
          THEN SubSeq(b, 1, Len(b) - 1) ELSE b

\* lines 108-113: what bringToLife returns for response.text
bringToLifeResult(text) ==
    StripFences(IF text # <<>> THEN text ELSE FailureComment)

\* lines 139-143: what updateCode returns for response.text
updateCodeResult(text, currentHtml) ==
    StripFences(IF text # <<>> THEN text ELSE currentHtml)

----------------------------------------------------------------------------
(* handleError, lines 134-145: the values it leaves in isApiKeyModalOpen,  *)
(* apiStatus and the last alert                                            *)

\* A handler that takes every error for a passing one
handleErrorAlwaysRetry(error) ==
    [modal |-> isApiKeyModalOpen, status |-> apiStatus, alert |-> "please retry"]

handleError(error) ==
    IF error = API_KEY_MISSING
       THEN [modal |-> TRUE, status |-> apiStatus, alert |-> "none"]
       ELSE IF Includes(error, "403") \/ Includes(error, "400")
       THEN [modal |-> TRUE, status |-> "invalid", alert |-> "invalid key"]
       ELSE [modal |-> isApiKeyModalOpen, status |-> apiStatus,
             alert |-> "please retry"]

\* A catch whose finally forgets to clear isGenerating
CaughtStillGenerating(error, op) ==
    /\ isApiKeyModalOpen' = handleError(error).modal
    /\ apiStatus' = handleError(error).status
    /\ lastAlert' = handleError(error).alert
    /\ isGenerating' = isGenerating
    /\ lastOp' = op

\* catch and finally of handleGenerate / handleUpdate: lines 177-181, 204-208
Caught(error, op) ==
    /\ isApiKeyModalOpen' = handleError(error).modal
    /\ apiStatus' = handleError(error).status
    /\ lastAlert' = handleError(error).alert
    /\ isGenerating' = FALSE
    /\ lastOp' = op

----------------------------------------------------------------------------
(* handleGenerate, lines 147-182, step by step *)

\* A call that has not settled: the handler, what it waits for, and what its
\* closure holds (the file of handleGenerate, the activeCreation of
\* handleUpdate)
Request(kind, stage, file, base) ==
    [rid |-> steps + 1, kind |-> kind, stage |-> stage, file |-> file,
     base |-> base]

\* lines 148-161 up to the first await that waits for the outside world
handleGenerate(promptText, file) ==
    /\ steps < MaxSteps
    /\ steps' = steps + 1
    /\ activeCreation' = Null
    /\ IF file # NoFile
          THEN \* line 157: wait for the FileReader
               /\ inflight' = inflight \cup
                     {Request("generate", "reading", file, Null)}
               /\ isGenerating' = TRUE
               /\ lastOp' = "generate"
               /\ lastAlert' = "none"
               /\ UNCHANGED <<isApiKeyModalOpen, apiStatus>>
          ELSE IF KeyMissing
          THEN \* bringToLife rejects at once, line 77
               /\ Caught(API_KEY_MISSING, "generateNoKey")
               /\ UNCHANGED inflight
          ELSE /\ inflight' = inflight \cup
                     {Request("generate", "remote", file, Null)}
               /\ isGenerating' = TRUE
               /\ lastOp' = "generate"
               /\ lastAlert' = "none"
               /\ UNCHANGED <<isApiKeyModalOpen, apiStatus>>
    /\ UNCHANGED <<history, storedHistory, storedKey, probes,
                   modalTimer, initPc, uuids, clock,
                   exportedFile, call, validated, writeFailures>>

\* fileToBase64 resolves (lines 121-125), then lines 158-161
fileToBase64Resolves(r) ==
    /\ r \in inflight /\ r.stage = "reading"
    /\ IF KeyMissing
          THEN /\ Caught(API_KEY_MISSING, "generateNoKey")
               /\ inflight' = inflight \ {r}
          ELSE /\ inflight' = (inflight \ {r}) \cup
                     {[r EXCEPT !.stage = "remote"]}
               /\ lastOp' = "fileRead"
               /\ lastAlert' = "none"
               /\ UNCHANGED <<isGenerating, isApiKeyModalOpen, apiStatus>>
    /\ UNCHANGED <<history, activeCreation, storedHistory, storedKey, probes,
                   modalTimer, initPc,
                   steps, uuids, clock, exportedFile, call, validated, writeFailures>>

\* fileToBase64 rejects (line 130): the catch of handleGenerate runs
fileToBase64Rejects(r) ==
    /\ r \in inflight /\ r.stage = "reading"
    /\ inflight' = inflight \ {r}
    /\ Caught(<<"ProgressEvent">>, "generateFailed")
    /\ UNCHANGED <<history, activeCreation, storedHistory, storedKey, probes,
                   modalTimer, initPc,
                   steps, uuids, clock, exportedFile, call, validated, writeFailures>>

\* lines 164-171
NewCreation(r, html, uuid, now) ==
    [id |-> uuid,
     name |-> IF r.file # NoFile THEN r.file.name ELSE DefaultName,
     html |-> html,
     originalImage |-> IF r.file # NoFile /\ r.file.data # "" /\ r.file.type # ""
                          THEN <<r.file.type, r.file.data>> ELSE Undefined,
     timestamp |-> ValidDate(now)]

\* bringToLife resolves with response text `text`: lines 108-113, 163-181
bringToLifeResolves(r, text, ok) ==
    /\ r \in inflight /\ r.kind = "generate" /\ r.stage = "remote"
    /\ inflight' = inflight \ {r}
    /\ isGenerating' = FALSE
    /\ LET html == bringToLifeResult(text)
           newCreation == NewCreation(r, html, RandomUUID(uuids + 1), clock + 1)
       IN IF html # <<>>
             THEN /\ activeCreation' = newCreation
                  /\ history' = AddToHistory(newCreation, history)
                  /\ storedHistory' =
                        SaveHistoryEffect(history', storedHistory, ok)
                  /\ writeFailures' = writeFailures + Failed(history', ok)
                  /\ uuids' = uuids + 1
                  /\ clock' = clock + 1
                  /\ lastOp' = "generated"
             ELSE /\ lastOp' = "generatedNothing"
                  /\ UNCHANGED <<activeCreation, history, storedHistory,
                                 writeFailures, uuids, clock>>
    /\ lastAlert' = "none"
    /\ UNCHANGED <<isApiKeyModalOpen, apiStatus, storedKey, probes,
                   modalTimer, initPc, steps,
                   exportedFile, call, validated>>

\* bringToLife rejects with a remote error: lines 114-117, 177-181
bringToLifeRejects(r, error) ==
    /\ r \in inflight /\ r.kind = "generate" /\ r.stage = "remote"
    /\ inflight' = inflight \ {r}
    /\ Caught(error, "generateFailed")
    /\ UNCHANGED <<history, activeCreation, storedHistory, storedKey, probes,
                   modalTimer, initPc,
                   steps, uuids, clock, exportedFile, call, validated, writeFailures>>

----------------------------------------------------------------------------
(* handleUpdate, lines 184-209, step by step *)

\* A revise that empties the preview while it waits, as a create does
handleUpdateClears(prompt) ==
    /\ activeCreation # Null
    /\ steps < MaxSteps
    /\ steps' = steps + 1
    /\ activeCreation' = Null
    /\ IF KeyMissing
          THEN /\ Caught(API_KEY_MISSING, "updateNoKey")
               /\ UNCHANGED inflight
          ELSE /\ inflight' = inflight \cup
                     {Request("update", "remote", NoFile, activeCreation)}
               /\ isGenerating' = TRUE
               /\ lastOp' = "update"
               /\ lastAlert' = "none"
               /\ UNCHANGED <<isApiKeyModalOpen, apiStatus>>
    /\ UNCHANGED <<history, storedHistory, storedKey, probes,
                   modalTimer, initPc,
                   uuids, clock, exportedFile, call, validated, writeFailures>>

\* lines 185-189; base is the activeCreation the handler closed over
handleUpdate(prompt) ==
    /\ activeCreation # Null
    /\ steps < MaxSteps
    /\ steps' = steps + 1
    /\ IF KeyMissing
          THEN /\ Caught(API_KEY_MISSING, "updateNoKey")
               /\ UNCHANGED inflight
          ELSE /\ inflight' = inflight \cup
                     {Request("update", "remote", NoFile, activeCreation)}
               /\ isGenerating' = TRUE
               /\ lastOp' = "update"
               /\ lastAlert' = "none"
               /\ UNCHANGED <<isApiKeyModalOpen, apiStatus>>
    /\ UNCHANGED <<history, activeCreation, storedHistory, storedKey, probes,
                   modalTimer, initPc,
                   uuids, clock, exportedFile, call, validated, writeFailures>>

\* A revision that rewrites the record it revises
UpdatedInPlace(base, newHtml, uuid, now) ==
    [base EXCEPT !.html = newHtml, !.timestamp = ValidDate(now)]

\* lines 192-198
UpdatedCreation(base, newHtml, uuid, now) ==
    [base EXCEPT !.id = uuid,
                 !.name = Append(base.name, V2Suffix),
                 !.html = newHtml,
                 !.timestamp = ValidDate(now)]

\* updateCode resolves with response text `text`: lines 139-143, 191-208
updateCodeResolves(r, text, ok) ==
    /\ r \in inflight /\ r.kind = "update"
    /\ inflight' = inflight \ {r}
    /\ isGenerating' = FALSE
    /\ LET newHtml == updateCodeResult(text, r.base.html)
           updatedCreation ==
               UpdatedCreation(r.base, newHtml, RandomUUID(uuids + 1), clock + 1)
       IN IF newHtml # <<>>
             THEN /\ history' = AddToHistory(updatedCreation, history)
                  /\ activeCreation' = updatedCreation
                  /\ storedHistory' =
                        SaveHistoryEffect(history', storedHistory, ok)
                  /\ writeFailures' = writeFailures + Failed(history', ok)
                  /\ uuids' = uuids + 1
                  /\ clock' = clock + 1
                  /\ lastOp' = "updated"
             ELSE /\ lastOp' = "updatedNothing"
                  /\ UNCHANGED <<activeCreation, history, storedHistory,
                                 writeFailures, uuids, clock>>
    /\ lastAlert' = "none"
    /\ UNCHANGED <<isApiKeyModalOpen, apiStatus, storedKey, probes,
                   modalTimer, initPc, steps,
                   exportedFile, call, validated>>

\* updateCode rejects with a remote error: lines 144-147, 204-208
updateCodeRejects(r, error) ==
    /\ r \in inflight /\ r.kind = "update"
    /\ inflight' = inflight \ {r}
    /\ Caught(error, "updateFailed")
    /\ UNCHANGED <<history, activeCreation, storedHistory, storedKey, probes,
                   modalTimer, initPc,
                   steps, uuids, clock, exportedFile, call, validated, writeFailures>>

----------------------------------------------------------------------------
(* The specification *)

\* The ids a delete may be asked for: those of the cards a user picks from,
\* the id of the active creation, and the id of an importable document
DeleteTargets ==
    {history[i].id : i \in Picks(history)}
        \cup (IF activeCreation # Null THEN {activeCreation.id} ELSE {})
        \cup {DocBadTime["id"]}

\* The files an import may be given: the fixed ones and the exported one
Importable ==
    ImportFiles \cup (IF exportedFile # Null THEN {exportedFile} ELSE {})

Next ==
    \/ \E okUrls \in FetchOutcomes, ok \in WriteOutcomes :
          initHistoryLoaded(okUrls, ok)
    \/ initHistoryFailed
    \/ handleReset
    \/ \E i \in Picks(history) : handleSelectCreation(history[i])
    \/ \E id \in DeleteTargets :
          \E ok \in WriteOutcomes : handleDeleteCreation(id, ok)
    \/ \E file \in Importable, ok \in WriteOutcomes : handleImportFile(file, ok)
    \/ handleExport
    \/ \E promptText \in Prompts, file \in Files : handleGenerate(promptText, file)
    \/ \E r \in inflight : fileToBase64Resolves(r)
    \/ \E r \in inflight : fileToBase64Rejects(r)
    \/ \E r \in inflight, text \in ResponseTexts, ok \in WriteOutcomes :
          bringToLifeResolves(r, text, ok)
    \/ \E r \in inflight, error \in RemoteErrors : bringToLifeRejects(r, error)
    \/ \E prompt \in Prompts \ {""} : handleUpdate(prompt)
    \/ \E r \in inflight, text \in ResponseTexts, ok \in WriteOutcomes :
          updateCodeResolves(r, text, ok)
    \/ \E r \in inflight, error \in RemoteErrors : updateCodeRejects(r, error)

\* The history, the active creation and the requests, for each key that may
\* be stored when the page is opened; the key is not changed
Spec == Init /\ [][Next]_vars

\* A first visit: nothing is stored under gemini_app_history
InitKey == Init /\ storedHistory = Absent

\* The steps that concern the API key, together with the requests that read
\* it and the handlers that fill and empty the preview
NextKey ==
    \/ \E okUrls \in FetchOutcomes, ok \in WriteOutcomes :
          initHistoryLoaded(okUrls, ok)
    \/ initHistoryFailed
    \/ handleReset
    \/ \E i \in Picks(history) : handleSelectCreation(history[i])
    \/ \E promptText \in Prompts, file \in Files : handleGenerate(promptText, file)
    \/ \E r \in inflight : fileToBase64Resolves(r)
    \/ \E r \in inflight : fileToBase64Rejects(r)
    \/ \E r \in inflight, text \in ResponseTexts, ok \in WriteOutcomes :
          bringToLifeResolves(r, text, ok)
    \/ \E r \in inflight, error \in RemoteErrors : bringToLifeRejects(r, error)
    \/ \E prompt \in Prompts \ {""} : handleUpdate(prompt)
    \/ \E r \in inflight, text \in ResponseTexts, ok \in WriteOutcomes :
          updateCodeResolves(r, text, ok)
    \/ \E r \in inflight, error \in RemoteErrors : updateCodeRejects(r, error)
    \/ modalTimerFires
    \/ \E p \in probes, isValid \in BOOLEAN : validateApiKeyResolves(p, isValid)
    \/ openSettings
    \/ onClose
    \/ \E apiKey \in KeyInputs : handleSave(apiKey)
    \/ handleClear

\* The API key and the requests, from a first visit
SpecKey == InitKey /\ [][NextKey]_vars

----------------------------------------------------------------------------
(* The functions of the Gemini service on their own, part_000 76-148 *)

\* Everything but call
appVars == <<history, activeCreation, isGenerating, isApiKeyModalOpen,
             apiStatus, storedHistory, storedKey, initPc, inflight, probes,
             modalTimer, steps, uuids, clock, exportedFile, lastAlert,
             writeFailures, lastOp, validated>>

\* The tokens of a response text and the non-empty texts of up to
\* MaxTextLen tokens
Tokens == {Fence, "html", "ws", "x"}
Texts == UNION {[1..k -> Tokens] : k \in 1..MaxTextLen}

\* currentHtml of updateCode
CurrentHtml == <<"x">>

\* A response text about to be cleaned
InitCleanup ==
    /\ Mounted
    /\ storedHistory = Absent
    /\ storedKey = NoKey
    /\ call \in {[fn |-> "cleanup", text |-> t, by |-> "nobody",
                  result |-> <<>>] : t \in Texts}

\* lines 108-113: bringToLife cleans response.text
cleanupOfBringToLife ==
    /\ call.fn = "cleanup" /\ call.by = "nobody"
    /\ call' = [call EXCEPT !.by = "bringToLife",
                            !.result = bringToLifeResult(call.text)]
    /\ UNCHANGED appVars

\* lines 139-143: updateCode cleans response.text
cleanupOfUpdateCode ==
    /\ call.fn = "cleanup" /\ call.by = "nobody"
    /\ call' = [call EXCEPT !.by = "updateCode",
                            !.result = updateCodeResult(call.text, CurrentHtml)]
    /\ UNCHANGED appVars

NextCleanup == cleanupOfBringToLife \/ cleanupOfUpdateCode

SpecCleanup == InitCleanup /\ [][NextCleanup]_vars

\* The texts of a request, part_000 81-83; the Chinese default prompt is
\* written in ASCII
AnalysisDirective == "Analyze this image/document. Detect what functionality is implied."
DefaultDemoPrompt == "create a demo app that shows what you can do"

\* A string argument that is undefined or empty: both are falsy
NoText == ""

\* What bringToLife may be called with
PromptTexts == {NoText, " ", "make a game", "a clock", "a todo list", "snake"}
Base64Texts == {NoText, "b64", "b65"}
MimeTypes == {NoText, "image/png", "application/pdf"}

\* A prompt that is sent as it is, empty or not
FinalPromptNoDefault(prompt, fileBase64) ==
    IF fileBase64 # NoText THEN AnalysisDirective ELSE prompt

\* lines 81-83: fileBase64 ? directive : prompt || default
FinalPrompt(prompt, fileBase64) ==
    IF fileBase64 # NoText THEN AnalysisDirective
    ELSE IF prompt # NoText THEN prompt
    ELSE DefaultDemoPrompt

\* lines 79-94: the parts of the request
Parts(prompt, fileBase64, mimeType) ==
    <<[text |-> FinalPrompt(prompt, fileBase64)]>>
        \o (IF fileBase64 # NoText /\ mimeType # NoText
               THEN <<[data |-> fileBase64, mimeType |-> mimeType]>>
               ELSE <<>>)

\* A call of bringToLife about to build its request
InitRequest ==
    /\ Mounted
    /\ storedHistory = Absent
    /\ storedKey = "key1"
    /\ call \in {[fn |-> "bringToLife", prompt |-> p, fileBase64 |-> b,
                  mimeType |-> m, parts |-> <<>>] :
                     p \in PromptTexts, b \in Base64Texts, m \in MimeTypes}

\* lines 78-94: bringToLife builds the parts it sends
buildParts ==
    /\ call.fn = "bringToLife" /\ call.parts = <<>>
    /\ call' = [call EXCEPT
                   !.parts = Parts(call.prompt, call.fileBase64, call.mimeType)]
    /\ UNCHANGED appVars

NextRequest == buildParts

SpecRequest == InitRequest /\ [][NextRequest]_vars

----------------------------------------------------------------------------
(* Properties *)

\* The steps that add a record: a generate or a revise that produced one,
\* and an import of an id that was not present
AddOps == {"generated", "updated", "import"}

\* The steps the store counts as mutations: add, remove, import
MutationOps == AddOps \cup {"importExisting", "delete", "deleteAbsent"}

\* C1: in every reachable state the history holds at most
\* MAX_HISTORY_ITEMS = 30 records.
C1_HistoryBounded == Len(history) <= 30

\* C1 witness: a record was just added and the history is full.
C1_Witness == lastOp \in AddOps /\ Len(history) = 30

\* C2: every add (a generate or a revise that produced a record, an import
\* of an id not yet present) puts the new record at index 0 and keeps the
\* records that were present in their order, one position further; a
\* history of 30 records loses exactly its last record.
C2_AddAtHead ==
    [][lastOp' \in AddOps =>
          /\ Len(history') = IF Len(history) < 30 THEN Len(history) + 1 ELSE 30
          /\ history'[1] = activeCreation'
          /\ \A i \in DOMAIN history : history[i].id # history'[1].id
          /\ \A i \in DOMAIN history : i < 30 => history'[i + 1] = history[i]
      ]_vars

\* C2 witness: a record was added to a full history, whose last record was
\* evicted and whose other records moved one position.
C2_Witness ==
    /\ lastOp \in AddOps
    /\ Len(history) = 30
    /\ history[1] = activeCreation
    /\ history[2].id = <<"saved", 1>>
    /\ history[30].id = <<"saved", 29>>

\* C3: in every reachable state no two records of the history share an id.
C3_UniqueIds ==
    \A i, j \in DOMAIN history : i # j => history[i].id # history[j].id

\* C3 witness: an import met a record with its id already in a history of
\* several records, or ids were generated for several records.
C3_Witness ==
    /\ Len(history) >= 2
    /\ \/ lastOp = "importExisting"
       \/ lastOp \in AddOps /\ uuids >= 2


\* The request that the step settles
Settled == CHOOSE r \in inflight : r \notin inflight'

\* What C4 says of the record a revise produces: a new id, the name of the
\* revised record X followed by " (v2)", the cleaned response as html, a new
\* timestamp; it is the active creation and the head of the history.
RevisionOf(X, N) ==
    /\ N.id # X.id
    /\ \A i \in DOMAIN history : history[i].id # N.id
    /\ N.name = X.name \o <<" (v2)">>
    /\ N.html # <<>>
    /\ \E text \in ResponseTexts : N.html = updateCodeResult(text, X.html)
    /\ N.timestamp = ValidDate(clock')
    /\ N.timestamp # X.timestamp
    /\ N.originalImage = X.originalImage
    /\ activeCreation' = N
    /\ history'[1] = N

\* C4 as stated: after a successful revise of the active record X the new
\* record is as RevisionOf says, and X is still in the history, unchanged,
\* at its prior position plus one.
C4_OriginalStaysInHistory ==
    [][lastOp' = "updated" =>
          /\ RevisionOf(Settled.base, activeCreation')
          /\ \E p \in DOMAIN history :
                /\ history[p] = Settled.base
                /\ p + 1 \in DOMAIN history'
                /\ history'[p + 1] = Settled.base
      ]_vars

\* C4 amended: the new record is as RevisionOf says, and every record that
\* is in the history when the response is handled moves, unchanged, to its
\* prior position plus one, except the last record of a full history (30
\* records), which is evicted; X among them, if it is still in the history.
C4_Revision ==
    [][lastOp' = "updated" =>
          /\ RevisionOf(Settled.base, activeCreation')
          /\ \A p \in DOMAIN history :
                p < 30 => /\ p + 1 \in DOMAIN history'
                          /\ history'[p + 1] = history[p]
          /\ Len(history') <= 30
      ]_vars

\* C4 witness: a revise produced a record, now active and head of the
\* history, and the record it revised is further down the history.
C4_Witness ==
    /\ lastOp = "updated"
    /\ Len(history) >= 2
    /\ history[1] = activeCreation
    /\ \E p \in 2..Len(history) :
          /\ activeCreation.name = history[p].name \o <<" (v2)">>
          /\ activeCreation.id # history[p].id


\* text is the JSON array that serializes history h: one document per
\* record, in order, with the record's id, name and html, its timestamp as
\* ISO text (null for an Invalid Date), and its originalImage when it has one
SerializationOf(text, h) ==
    /\ DOMAIN text = DOMAIN h
    /\ \A i \in DOMAIN h :
          /\ text[i]["id"] = h[i].id
          /\ text[i]["name"] = h[i].name
          /\ text[i]["html"] = h[i].html
          /\ text[i]["timestamp"] =
                IF h[i].timestamp.valid
                   THEN [kind |-> "iso", time |-> h[i].timestamp.time]
                   ELSE [kind |-> "null", time |-> 0]
          /\ IF h[i].originalImage = <<>>
                THEN "originalImage" \notin DOMAIN text[i]
                ELSE /\ "originalImage" \in DOMAIN text[i]
                     /\ text[i]["originalImage"] = h[i].originalImage

\* The stored entry reflects the history: removed when the history is
\* empty, its serialization otherwise
StoredReflects(h) ==
    IF Len(h) = 0
       THEN storedHistory = [absent |-> TRUE]
       ELSE /\ storedHistory # [absent |-> TRUE]
            /\ SerializationOf(storedHistory.text, h)

\* C5: provided no storage write has failed, after every completed add,
\* remove or import the entry gemini_app_history is the serialization of
\* the history when the history is not empty, and is absent when it is.
C5_PersistedReflectsMemory ==
    (lastOp \in MutationOps /\ writeFailures = 0) => StoredReflects(history)

\* C5 witness: a delete emptied a history that had been saved, and the
\* stored entry is gone.
C5_Witness ==
    /\ lastOp = "delete"
    /\ Len(history) = 0
    /\ storedHistory = [absent |-> TRUE]
    /\ writeFailures = 0
    /\ clock >= 1

\* C6 as stated: once initialization has found no stored history, the
\* stored entry stays absent until the first add, remove or import: only
\* these steps take it from absent to present.
C6_AbsentUntilMutation ==
    [][(storedHistory = [absent |-> TRUE] /\ storedHistory' # [absent |-> TRUE])
          => lastOp' \in MutationOps]_vars

\* C6 amended: when the examples arrive before any add, remove or import
\* and the storage write succeeds, the stored entry is the serialization of
\* the examples as soon as they are loaded; it stays absent only when no
\* example loaded.
C6_ExamplesAreSaved ==
    (lastOp = "initLoaded" /\ steps = 0 /\ writeFailures = 0)
        => StoredReflects(history)

\* C6 witness: the three examples were loaded before any other step and
\* the stored entry is present.
C6_Witness ==
    /\ lastOp = "initLoaded"
    /\ steps = 0
    /\ Len(history) = 3
    /\ storedHistory # [absent |-> TRUE]

\* C7: an import of a file that is no JSON, or that lacks a non-empty html
\* or a non-empty name, shows an alert and leaves the history, the stored
\* entry and the active creation unchanged.
C7_InvalidImportRejected ==
    [][\A file \in {NotJson, DocNoHtml, DocEmptyName} :
          (\E ok \in BOOLEAN : handleImportFile(file, ok))
              => /\ lastAlert' \in {"import failed", "invalid file format"}
                 /\ history' = history
                 /\ storedHistory' = storedHistory
                 /\ activeCreation' = activeCreation
      ]_vars

\* C7 witness: a file without the required fields was just refused while
\* there were a history and an active creation to keep.
C7_Witness ==
    /\ lastOp = "importRejected"
    /\ lastAlert = "invalid file format"
    /\ Len(history) > 0
    /\ activeCreation # Null

\* C8: importing the exported document of a record whose id is in the
\* history leaves the history as it was, and the decoded record becomes the
\* active creation.
C8_ExportImportRoundTrip ==
    [][(/\ exportedFile # Null
        /\ \E i \in DOMAIN history : history[i].id = exportedFile["id"]
        /\ \E ok \in BOOLEAN : handleImportFile(exportedFile, ok))
          => /\ history' = history
             /\ activeCreation' # Null
             /\ activeCreation'.id = exportedFile["id"]
             /\ activeCreation'.name = exportedFile["name"]
             /\ activeCreation'.html = exportedFile["html"]
      ]_vars

\* C8 witness: the exported document of a record of the history was just
\* imported and its record is the active creation.
C8_Witness ==
    /\ lastOp = "importExisting"
    /\ exportedFile # Null
    /\ activeCreation # Null
    /\ activeCreation.id = exportedFile["id"]
    /\ \E i \in DOMAIN history : history[i].id = exportedFile["id"]

\* C9 as stated: a valid import takes a fresh id when the document has
\* none, and the current time as timestamp when the document's timestamp is
\* missing or is no date; the timestamp of the imported record is a valid
\* instant.
C9_ImportDefaults ==
    [][\A file \in Importable :
          (/\ file # NotJson
           /\ Truthy(file, "html") /\ Truthy(file, "name")
           /\ \E ok \in BOOLEAN : handleImportFile(file, ok))
             => /\ "id" \notin DOMAIN file =>
                      /\ activeCreation'.id = <<"uuid", uuids + 1>>
                      /\ \A i \in DOMAIN history :
                            history[i].id # activeCreation'.id
                /\ ("timestamp" \notin DOMAIN file
                        \/ file["timestamp"].kind \in {"text", "null"})
                      => activeCreation'.timestamp =
                             [valid |-> TRUE, time |-> clock']
                /\ activeCreation'.timestamp.valid
      ]_vars

FailureOps == {"generateNoKey", "generateFailed", "updateNoKey", "updateFailed"}

\* C11 as stated: a step in which a create or a revise request fails leaves
\* the active creation empty, isGenerating false and the history as it was.
C11_FailureEndsIdle ==
    [][lastOp' \in FailureOps
          => /\ activeCreation' = Null
             /\ isGenerating' = FALSE
             /\ history' = history]_vars

\* C11 amended: a step in which a create or a revise request fails leaves
\* isGenerating false and the history and its stored copy as they were; it
\* leaves the active creation as it was, except that the call of
\* handleGenerate that fails at once has emptied it.
C11_FailureKeepsActive ==
    [][lastOp' \in FailureOps
          => /\ isGenerating' = FALSE
             /\ history' = history
             /\ storedHistory' = storedHistory
             /\ activeCreation' =
                   IF lastOp' = "generateNoKey" /\ steps' # steps
                      THEN Null ELSE activeCreation]_vars

\* C11 witness: a revise request has just failed and the creation it was to
\* revise is still the active one.
C11_Witness ==
    /\ lastOp = "updateFailed"
    /\ activeCreation # Null
    /\ isGenerating = FALSE
    /\ Len(history) > 0

\* C12: a step that handles a create or revise response and makes a record
\* of it sets the record as the active creation and inserts it in the
\* history: after the step the active creation is a record that was not in
\* the history before, it is the first record of the history, and
\* isGenerating is false.
C12_SuccessPresents ==
    [][lastOp' \in {"generated", "updated"}
          => /\ activeCreation' # Null
             /\ Len(history') >= 1
             /\ history'[1] = activeCreation'
             /\ \A i \in DOMAIN history : history[i].id # activeCreation'.id
             /\ isGenerating' = FALSE]_vars

\* C12 witness: a revise response was just handled on a history that had
\* records, and its record is active and first.
C12_Witness ==
    /\ lastOp = "updated"
    /\ Len(history) > 1
    /\ activeCreation = history[1]
    /\ isGenerating = FALSE

\* The numbers of the calls in flight
Rids(reqs) == {r.rid : r \in reqs}

\* C13: no call of a handler and no step of initialization takes a request
\* out of flight, and the response of a request that the user has acted
\* after (reset, select, delete, another request) is still made a record
\* that is put at the head of the history and becomes the active creation.
C13_NeverCancelled ==
    [][/\ (steps' # steps \/ lastOp' \in {"export", "initLoaded", "initFailed"})
            => Rids(inflight) \subseteq Rids(inflight')
       /\ (lastOp' \in {"generated", "updated"} /\ Settled.rid < steps)
            => /\ activeCreation' # Null
               /\ activeCreation'.id = <<"uuid", uuids + 1>>
               /\ history'[1] = activeCreation'
               /\ \A i \in 2..Len(history') : history'[i] = history[i - 1]
      ]_vars

\* C13 witness: two create requests were started, the response of the first
\* was just handled while the second is still in flight, and its record is
\* active and first.
C13_Witness ==
    /\ lastOp = "generated"
    /\ \E r \in inflight : r.rid = 2
    /\ activeCreation # Null
    /\ Len(history) >= 1
    /\ history[1] = activeCreation

\* C14: a reset empties the active creation, clears isGenerating and leaves
\* the history as it was; a delete of the id of the active creation empties
\* the active creation; a delete of any other id leaves it as it was.
C14_ResetAndDelete ==
    [][/\ handleReset
            => /\ activeCreation' = Null
               /\ isGenerating' = FALSE
               /\ history' = history
       /\ \A id \in DeleteTargets :
             (\E ok \in BOOLEAN : handleDeleteCreation(id, ok))
                => IF activeCreation # Null /\ activeCreation.id = id
                      THEN activeCreation' = Null
                      ELSE activeCreation' = activeCreation
      ]_vars

\* C14 witness: the active creation had been exported, then a delete took
\* its record out of the history and emptied the active creation.
C14_Witness ==
    /\ lastOp = "delete"
    /\ activeCreation = Null
    /\ steps = 2
    /\ exportedFile # Null
    /\ \A i \in DOMAIN history : history[i].id # exportedFile["id"]
    /\ Len(history) > 0

\* C15: while no key is stored under user_gemini_api_key, a call of
\* handleGenerate or handleUpdate (for a generate with a file: the step that
\* follows the reading of the file) sends no remote request, opens the API
\* key modal, leaves the history as it was and leaves isGenerating false.
C15_MissingKeyFails ==
    [][(/\ storedKey = ""
        /\ \/ \E promptText \in Prompts : handleGenerate(promptText, NoFile)
           \/ \E r \in inflight : fileToBase64Resolves(r)
           \/ \E prompt \in Prompts : handleUpdate(prompt))
          => /\ \A r \in inflight' : r.stage # "remote" \/ r \in inflight
             /\ isApiKeyModalOpen' = TRUE
             /\ history' = history
             /\ storedHistory' = storedHistory
             /\ isGenerating' = FALSE
      ]_vars

\* C15 witness: a key was stored when the page was opened (the status is
\* not idle), it has been cleared, and a generate has just failed for the
\* lack of it: the modal is open and isGenerating is false.
C15_Witness ==
    /\ lastOp = "generateNoKey"
    /\ storedKey = ""
    /\ apiStatus # "idle"
    /\ isApiKeyModalOpen
    /\ isGenerating = FALSE

\* C16: when a remote call rejects with an error whose text contains 403 or
\* 400, apiStatus becomes invalid and the API key modal is open; when it
\* rejects with any other error, only the retry alert is shown and apiStatus
\* and the modal stay as they were.
C16_ErrorClassification ==
    [][\A r \in inflight, error \in RemoteErrors :
          (bringToLifeRejects(r, error) \/ updateCodeRejects(r, error))
             => IF (\E i \in DOMAIN error : error[i] \in {"403", "400"})
                   THEN /\ apiStatus' = "invalid"
                        /\ isApiKeyModalOpen' = TRUE
                   ELSE /\ lastAlert' = "please retry"
                        /\ apiStatus' = apiStatus
                        /\ isApiKeyModalOpen' = isApiKeyModalOpen
      ]_vars

\* C16 witness: the key was found valid, then a remote call failed with an
\* error that is neither 403 nor 400: the retry alert is shown, the status
\* is still valid and the modal is still closed.
C16_Witness ==
    /\ lastOp \in {"generateFailed", "updateFailed"}
    /\ lastAlert = "please retry"
    /\ apiStatus = "valid"
    /\ isApiKeyModalOpen = FALSE

\* The index of the last token of text t that is not white space, 0 if none
LastInk(t) ==
    IF \A i \in DOMAIN t : t[i] = "ws" THEN 0
    ELSE CHOOSE i \in DOMAIN t :
            t[i] # "ws" /\ \A j \in DOMAIN t : j > i => t[j] = "ws"

\* Text t is a document in a fence wrapper: it starts with a fence, its last
\* token that is not white space is a fence, and it has no other fence
Wrapped(t) ==
    /\ t[1] = "fence"
    /\ LastInk(t) > 1
    /\ t[LastInk(t)] = "fence"
    /\ \A i \in DOMAIN t : t[i] = "fence" => i \in {1, LastInk(t)}

\* C17 as stated: the cleanup of a text in a fence wrapper leaves no fence,
\* also when white space follows the closing fence; a text with no fence at
\* its start and none at its end is returned as it is; and the cleanup of
\* the cleaned text changes nothing.
C17_CleanupStripsFences ==
    (call.fn = "cleanup" /\ call.by # "nobody")
        => /\ Wrapped(call.text)
                => \A i \in DOMAIN call.result : call.result[i] # "fence"
           /\ (call.text[1] # "fence"
                   /\ (LastInk(call.text) = 0
                          \/ call.text[LastInk(call.text)] # "fence"))
                => call.result = call.text
           /\ StripFences(call.result) = call.result

\* C18: the text part of the request is the analysis directive when file
\* bytes are given, whatever the prompt; the prompt as it is when no file
\* bytes are given and the prompt is not empty; the default demo prompt,
\* which is not empty, when neither is given.
C18_PromptSelection ==
    (call.fn = "bringToLife" /\ call.parts # <<>>)
        => /\ call.fileBase64 # "" => call.parts[1].text = AnalysisDirective
           /\ (call.fileBase64 = "" /\ call.prompt # "")
                => call.parts[1].text = call.prompt
           /\ (call.fileBase64 = "" /\ call.prompt = "")
                => /\ call.parts[1].text = DefaultDemoPrompt
                   /\ call.parts[1].text # ""

\* C18 witness: a request was built for a call with file bytes and a prompt,
\* and its text is the directive, not the prompt.
C18_Witness ==
    /\ call.fn = "bringToLife"
    /\ call.parts # <<>>
    /\ call.fileBase64 = "b64"
    /\ call.prompt = "make a game"
    /\ call.parts[1].text # call.prompt

\* C19: a step whose storage write throws shows no alert, leaves the stored
\* entry as it was and still has its effect in memory (an added record is
\* first in the history and active, a deleted record is gone, isGenerating
\* is what the step makes it); and once a write has failed, the next add or
\* delete whose write succeeds leaves the stored entry in line with the
\* history again.
C19_WriteFailureIsHarmless ==
    [][/\ writeFailures' > writeFailures
            => /\ lastAlert' = "none"
               /\ storedHistory' = storedHistory
               /\ lastOp' \in AddOps
                    => /\ Len(history') >= 1
                       /\ history'[1] = activeCreation'
                       /\ \A i \in 2..Len(history') : history'[i] = history[i - 1]
               /\ lastOp' \in {"delete", "deleteAbsent"}
                    => /\ Len(history') > 0
                       /\ \A i \in DOMAIN history' :
                             \E j \in DOMAIN history : history[j] = history'[i]
                       /\ Len(history') =
                             Len(history) - (IF lastOp' = "delete" THEN 1 ELSE 0)
               /\ isGenerating' =
                     IF lastOp' \in {"generated", "updated"}
                        THEN FALSE ELSE isGenerating
       /\ (/\ writeFailures > 0
           /\ writeFailures' = writeFailures
           /\ lastOp' \in AddOps \cup {"delete", "deleteAbsent"})
            => IF Len(history') = 0
                  THEN storedHistory' = [absent |-> TRUE]
                  ELSE /\ storedHistory' # [absent |-> TRUE]
                       /\ SerializationOf(storedHistory'.text, history')
      ]_vars

\* C19 witness: a write has failed earlier, a later add has written, and
\* the stored entry is the serialization of the history.
C19_Witness ==
    /\ writeFailures = 1
    /\ lastOp \in AddOps
    /\ Len(history) > 0
    /\ StoredReflects(history)

\* C20 as stated: a record leaves the history only by a delete or as the
\* last record of a full history that takes an insert; in particular a
\* record added while the examples are being fetched is still there when
\* initialization has finished.
C20_OnlyDeleteRemoves ==
    [][\A i \in DOMAIN history :
          \/ \E j \in DOMAIN history' : history'[j] = history[i]
          \/ lastOp' = "delete"
          \/ (lastOp' \in AddOps /\ Len(history) = 30 /\ i = 30)
      ]_vars

\* C21 as stated: in every reachable state in which isGenerating is true
\* the active creation is empty.
C21_GeneratingHidesActive == isGenerating => activeCreation = Null

\* C21 amended: the call of handleGenerate that starts a request sets
\* isGenerating and empties the active creation; the call of handleUpdate
\* that starts a request sets isGenerating and leaves the active creation,
\* which is not empty, in place.
C21_CreateClearsReviseKeeps ==
    [][/\ lastOp' = "generate"
            => isGenerating' = TRUE /\ activeCreation' = Null
       /\ lastOp' = "update"
            => /\ isGenerating' = TRUE
               /\ activeCreation' = activeCreation
               /\ activeCreation' # Null
      ]_vars

\* C21 witness: a revise request was just started: isGenerating is true and
\* the record to revise is still the active creation.
C21_Witness ==
    /\ lastOp = "update"
    /\ isGenerating = TRUE
    /\ activeCreation # Null
    /\ \E r \in inflight : r.kind = "update" /\ r.base = activeCreation

\* The steps that handle a response and make a record of it
ResponseOps == {"generated", "updated"}

SettleOps ==
    ResponseOps \cup FailureOps \cup {"generatedNothing", "updatedNothing"}

\* C23 as stated: isGenerating is true in every state in which a create or
\* revise request has been issued and has not settled.
C23_GeneratingWhileInFlight == inflight # {} => isGenerating = TRUE

\* C23 amended: a step that issues a request sets isGenerating; every step
\* in which a request settles and every reset clears it, also while other
\* requests are in flight; and no other step changes it.
C23_GeneratingUntilSettleOrReset ==
    [][/\ lastOp' \in {"generate", "update"}
            => isGenerating' = TRUE /\ inflight' # {}
       /\ (lastOp' \in SettleOps \/ handleReset) => isGenerating' = FALSE
       /\ isGenerating' # isGenerating
            => lastOp' \in {"generate", "update", "reset"} \cup SettleOps
      ]_vars

\* C23 witness: two requests were issued, the response of one was just
\* handled, the other is still in flight, and isGenerating is false.
C23_Witness ==
    /\ lastOp \in ResponseOps
    /\ inflight # {}
    /\ isGenerating = FALSE
    /\ activeCreation # Null

\* C24 as stated: in every reachable state in which the active creation is
\* not empty, the history holds a record with the id of the active creation.
C24_ActiveIsInHistory ==
    activeCreation # Null
        => \E i \in DOMAIN history : history[i].id = activeCreation.id

\* C25 as stated: a step that handles the response of a create request,
\* whatever its text, makes exactly one new record, which becomes the
\* active creation and the first record of the history.
C25_ResponseMakesRecord ==
    [][\A r \in inflight, text \in ResponseTexts :
          (\E ok \in BOOLEAN : bringToLifeResolves(r, text, ok))
             => /\ activeCreation' # Null
                /\ \A i \in DOMAIN history : history[i].id # activeCreation'.id
                /\ Len(history') >= 1
                /\ history'[1] = activeCreation'
                /\ Len(history') = IF Len(history) < 30 THEN Len(history) + 1 ELSE 30
      ]_vars

\* C26 as stated: whenever the request built for a call with file bytes has
\* the analysis directive as its text, it also carries the file bytes as
\* an inline attachment with the declared media type, whatever that media
\* type is, the empty one included.
C26_DirectiveCarriesFile ==
    (/\ call.fn = "bringToLife"
     /\ call.parts # <<>>
     /\ call.fileBase64 # ""
     /\ call.parts[1].text = AnalysisDirective)
        => /\ Len(call.parts) = 2
           /\ call.parts[2] = [data |-> call.fileBase64,
                               mimeType |-> call.mimeType]

\* C27 as stated: in every reachable state in which no call of
\* validateApiKey is pending, apiStatus is valid only if a key is stored
\* and a call of validateApiKey for that key has returned true.
C27_ValidMeansStoredKeyProbed ==
    (probes = {} /\ apiStatus = "valid")
        => storedKey # "" /\ storedKey \in validated

====
